---- MODULE Spec2Model ----
(***************************************************************************)
(* Model of dbt_lint/check_dbt_documentation.py: the pipeline              *)
(*   main -> find_model_paths -> run_dbt_coverage -> analyze_coverage_data *)
(* together with the working directory it reads and writes                 *)
(* (documentation_coverage.json, dbt_documentation.log) and the console.   *)
(*                                                                         *)
(* Fractions (coverage, threshold) are integers in hundredths: 0.5 is 50   *)
(* and 1.0 is One.  A Python dict is a TLA+ function whose DOMAIN is the    *)
(* set of keys that are present, so a missing key is a missing element of  *)
(* the DOMAIN.                                                             *)
(***************************************************************************)
EXTENDS Integers, Sequences, FiniteSets, TLC

\* ------------------------------------------------------------------ bounds
MaxTables == 2
MaxRuns == 2

\* ------------------------------------------------------- program constants
One == 100
DefaultThreshold == 90

\* --------------------------------------------------------- values and dicts
None == [none |-> TRUE]
EmptyDict == [k \in {} |-> 0]
NoFile == [nofile |-> TRUE]
Unreadable == [unreadable |-> TRUE]
Unset == 0 - 1

\* dict.get(key, default)
Get(d, key, dflt) == IF key \in DOMAIN d THEN d[key] ELSE dflt

\* Python truth value of coverage_data: None and {} are both falsy
IsFalsy_NoNoneCheck(d) == DOMAIN d = {}
IsFalsy(d) == d = None \/ DOMAIN d = {}

\* x * 100 on a value in hundredths
Times100(x) == x * 100

SeqsUpTo(S, n) == UNION {[1..k -> S] : k \in 0..n}

\* ------------------------------------------------------------------ inputs
\* DOC_COVERAGE_THRESHOLD: unset (the default) or a float in [0,1]
Thresholds == {0, 50, DefaultThreshold, One}

Col(n, c) == [name |-> n, coverage |-> c]

OrdersTable ==
  [name |-> "orders", coverage |-> 50, columns |-> <<Col("id", One), Col("total", 0)>>]
DimsTable ==
  [name |-> "dims", coverage |-> One, columns |-> <<Col("k", One)>>]
AnonTable ==
  [name |-> "anon0", coverage |-> 50, columns |-> <<Col("w", 0), [coverage |-> 0]>>]

\* TableCoverage dicts as the external tool may write them, well formed and
\* with keys missing.
TableInventory ==
  { OrdersTable, DimsTable, AnonTable,
    [name |-> "users", coverage |-> 0,
     columns |-> <<Col("id", 0), Col("email", 0)>>],
    [name |-> "events", coverage |-> 50,
     columns |-> <<Col("ts", 0), Col("kind", One), Col("src", 0)>>],
    [name |-> "facts", coverage |-> One,
     columns |-> <<Col("k", 0)>>],
    [name |-> "partial", coverage |-> 75,
     columns |-> <<Col("a", 50), Col("b", One)>>],
    [name |-> "nocov",
     columns |-> <<Col("x", 0)>>],
    [coverage |-> 50,
     columns |-> <<Col("x", 0)>>],
    [name |-> "nocols", coverage |-> 0],
    [name |-> "colnocov", coverage |-> 50,
     columns |-> <<[name |-> "y"], Col("z", One)>>],
    [name |-> "anon1", coverage |-> 50,
     columns |-> <<[coverage |-> One], Col("z", 0)>>],
    [name |-> "anonfull", coverage |-> One,
     columns |-> <<[coverage |-> 0]>>] }

CoverageParts == {EmptyDict, [coverage |-> 0], [coverage |-> 50], [coverage |-> One]}
CountParts == {EmptyDict, [covered |-> 3], [covered |-> 3, total |-> 4]}
TableParts == {EmptyDict} \cup {[tables |-> ts] : ts \in SeqsUpTo(TableInventory, MaxTables)}

\* CoverageReport dicts, including {} and every combination of missing keys
Reports == {c @@ n @@ t : c \in CoverageParts, n \in CountParts, t \in TableParts}

AnalysisInputs == {None} \cup Reports

\* what the external tool may leave in documentation_coverage.json
ToolReports ==
  { EmptyDict,
    [coverage |-> 75, covered |-> 3, total |-> 4, tables |-> <<OrdersTable>>],
    [coverage |-> One, covered |-> 1, total |-> 1, tables |-> <<DimsTable>>],
    [coverage |-> One, tables |-> <<AnonTable>>] }
NoWrite == [nowrite |-> TRUE]
ToolWrites == {NoWrite, Unreadable} \cup ToolReports

\* stdout of find: one line per directory below ./models, in directory order
Path(d) == [root |-> "./", dir |-> d]
FindOutputs == {<<Path(1)>>, <<Path(2), Path(1)>>, <<Path(1), Path(2)>>}

\* ------------------------------------------------------------ state
VARIABLES
  pc,                    \* position of the process
  run,                   \* number of runs started in this working directory
  threshold,             \* main: threshold
  model_paths,           \* main: model_paths
  path_filters,          \* main: path_filters
  outFile,               \* documentation_coverage.json in the working directory
  fileRun,               \* the run whose tool invocation wrote outFile (0: none)
  toolOutcome,           \* how subprocess.run ended in this run
  coverage_data,         \* main: coverage_data
  models_needing_fixes,  \* analyze_coverage_data: models_needing_fixes
  exit_code,             \* main: exit_code
  raised,                \* exception that escaped main, "" if none
  procExit,              \* exit status of the process
  console,               \* what was printed, in order
  log                    \* dbt_documentation.log, in order

vars == <<pc, run, threshold, model_paths, path_filters, outFile, fileRun,
          toolOutcome, coverage_data, models_needing_fixes, exit_code, raised,
          procExit, console, log>>

\* ------------------------------------------------------- reporting sink
Txt(kind, strs, nums) == [kind |-> kind, strs |-> strs, nums |-> nums]
Call(message, level, color) == [message |-> message, level |-> level, color |-> color]

\* log_and_print: print to the console, append "LEVEL: message" to the log
log_and_print(io, message, level, color) ==
  [console |-> Append(io.console, [text |-> message, color |-> color]),
   log |-> Append(io.log, [level |-> level, text |-> message])]

RECURSIVE EmitAll(_, _)
EmitAll(io, calls) ==
  IF calls = <<>> THEN io
  ELSE EmitAll(log_and_print(io, Head(calls).message, Head(calls).level, Head(calls).color),
               Tail(calls))

\* ------------------------------------------------- analyze_coverage_data
\* the filter of the comprehension: col.get('coverage', 0) == 0
IsUndocumented_BelowOne(col) == Get(col, "coverage", 0) < One
IsUndocumented(col) == Get(col, "coverage", 0) = 0

UndocumentedCols(table) == SelectSeq(Get(table, "columns", <<>>), IsUndocumented)

\* col['name'] of a selected column without a name raises KeyError
RaisesKeyError(table) ==
  /\ Get(table, "coverage", 0) < One
  /\ \E i \in 1..Len(UndocumentedCols(table)) : "name" \notin DOMAIN UndocumentedCols(table)[i]

missing_cols(table) ==
  [i \in 1..Len(UndocumentedCols(table)) |-> UndocumentedCols(table)[i]["name"]]

NeedsFixes(table) ==
  /\ Get(table, "coverage", 0) < One
  /\ missing_cols(table) # <<>>

FixRecord(table) ==
  [model |-> Get(table, "name", ""),
   coverage |-> Times100(Get(table, "coverage", 0)),
   missing_columns |-> missing_cols(table)]

\* the loop over coverage_data.get('tables', [])
RECURSIVE CollectFixes(_)
CollectFixes(tables) ==
  IF tables = <<>> THEN <<>>
  ELSE (IF NeedsFixes(Head(tables)) THEN <<FixRecord(Head(tables))>> ELSE <<>>)
       \o CollectFixes(Tail(tables))

\* list.sort(key=coverage): ascending, equal keys keep their order
RECURSIVE InsertByCoverage_Unstable(_, _)
InsertByCoverage_Unstable(sorted, item) ==
  IF sorted = <<>> THEN <<item>>
  ELSE IF item.coverage <= Head(sorted).coverage THEN <<item>> \o sorted
  ELSE <<Head(sorted)>> \o InsertByCoverage_Unstable(Tail(sorted), item)

RECURSIVE InsertByCoverage(_, _)
InsertByCoverage(sorted, item) ==
  IF sorted = <<>> THEN <<item>>
  ELSE IF item.coverage < Head(sorted).coverage THEN <<item>> \o sorted
  ELSE <<Head(sorted)>> \o InsertByCoverage(Tail(sorted), item)

RECURSIVE SortByCoverage(_)
SortByCoverage(list) ==
  IF list = <<>> THEN <<>>
  ELSE InsertByCoverage(SortByCoverage(SubSeq(list, 1, Len(list) - 1)), list[Len(list)])

\* the if / elif / else that picks status
Severity_Inclusive(coverage, thr) ==
  IF coverage = 0 THEN "CRITICAL"
  ELSE IF coverage <= Times100(thr) THEN "WARNING"
  ELSE "MINOR"
Severity(coverage, thr) ==
  IF coverage = 0 THEN "CRITICAL"
  ELSE IF coverage < Times100(thr) THEN "WARNING"
  ELSE "MINOR"

SeverityColor(status) ==
  IF status = "CRITICAL" THEN "RED"
  ELSE IF status = "WARNING" THEN "YELLOW"
  ELSE "CYAN"

NoDataCalls ==
  <<Call(Txt("NoCoverageData", <<>>, <<>>), "ERROR", "RED")>>

SummaryCalls(data) ==
  <<Call(Txt("SummaryHeader", <<>>, <<>>), "STATUS", "BLUE"),
    Call(Txt("Coverage", <<>>,
             <<Get(data, "covered", 0), Get(data, "total", 0),
               Times100(Get(data, "coverage", 0))>>), "INFO", "CYAN")>>

BlockCalls(item, thr) ==
  <<Call(Txt("Block", <<Severity(item.coverage, thr), item.model>>, <<item.coverage>>),
         Severity(item.coverage, thr), SeverityColor(Severity(item.coverage, thr))),
    Call(Txt("MissingHeader", <<>>, <<>>), "INFO", "")>>
  \o [i \in 1..Len(item.missing_columns) |->
        Call(Txt("Column", <<item.missing_columns[i]>>, <<>>), "INFO", "")]

RECURSIVE AllBlockCalls(_, _)
AllBlockCalls(items, thr) ==
  IF items = <<>> THEN <<>>
  ELSE BlockCalls(Head(items), thr) \o AllBlockCalls(Tail(items), thr)

FixesCalls(items, thr) ==
  IF items = <<>> THEN <<>>
  ELSE <<Call(Txt("FixesHeader", <<>>, <<>>), "STATUS", "YELLOW")>> \o AllBlockCalls(items, thr)

\* the final comparison: total_coverage < threshold
Verdict(data, thr) == IF Get(data, "coverage", 0) < thr THEN 1 ELSE 0

VerdictCalls(data, thr) ==
  IF Verdict(data, thr) = 1
  THEN <<Call(Txt("VerdictBelow", <<>>,
                  <<Times100(Get(data, "coverage", 0)), Times100(thr)>>), "ERROR", "RED")>>
  ELSE <<Call(Txt("VerdictMeets", <<>>,
                  <<Times100(Get(data, "coverage", 0)), Times100(thr)>>), "SUCCESS", "GREEN")>>

Tables(data) == Get(data, "tables", <<>>)

IO == [console |-> console, log |-> log]

\* analyze_coverage_data(None or {}): one message, return 1
AnalyzeNoData ==
  /\ pc = "analyze"
  /\ IsFalsy(coverage_data)
  /\ console' = EmitAll(IO, NoDataCalls).console
  /\ log' = EmitAll(IO, NoDataCalls).log
  /\ exit_code' = 1
  /\ pc' = "sysexit"
  /\ UNCHANGED <<run, threshold, model_paths, path_filters, outFile, fileRun,
                 toolOutcome, coverage_data, models_needing_fixes, raised, procExit>>

\* analyze_coverage_data on a report with a nameless undocumented column:
\* the summary is out, KeyError leaves the loop, nothing catches it in main
AnalyzeRaises ==
  /\ pc = "analyze"
  /\ ~IsFalsy(coverage_data)
  /\ \E i \in 1..Len(Tables(coverage_data)) : RaisesKeyError(Tables(coverage_data)[i])
  /\ console' = EmitAll(IO, SummaryCalls(coverage_data)).console
  /\ log' = EmitAll(IO, SummaryCalls(coverage_data)).log
  /\ raised' = "KeyError"
  /\ procExit' = 1
  /\ pc' = "exited"
  /\ UNCHANGED <<run, threshold, model_paths, path_filters, outFile, fileRun,
                 toolOutcome, coverage_data, models_needing_fixes, exit_code>>

\* analyze_coverage_data running to its return
AnalyzeReport ==
  /\ pc = "analyze"
  /\ ~IsFalsy(coverage_data)
  /\ \A i \in 1..Len(Tables(coverage_data)) : ~RaisesKeyError(Tables(coverage_data)[i])
  /\ LET fixes == SortByCoverage(CollectFixes(Tables(coverage_data)))
         io == EmitAll(IO, SummaryCalls(coverage_data)
                           \o FixesCalls(fixes, threshold)
                           \o VerdictCalls(coverage_data, threshold))
     IN /\ models_needing_fixes' = fixes
        /\ console' = io.console
        /\ log' = io.log
        /\ exit_code' = Verdict(coverage_data, threshold)
  /\ pc' = "sysexit"
  /\ UNCHANGED <<run, threshold, model_paths, path_filters, outFile, fileRun,
                 toolOutcome, coverage_data, raised, procExit>>

\* main: sys.exit(exit_code)
SysExit ==
  /\ pc = "sysexit"
  /\ procExit' = exit_code
  /\ pc' = "exited"
  /\ UNCHANGED <<run, threshold, model_paths, path_filters, outFile, fileRun,
                 toolOutcome, coverage_data, models_needing_fixes, exit_code, raised,
                 console, log>>

\* ------------------------------------------------------------------ main
\* print(stdout) and f.write(stdout): the captured output, no level prefix
WriteCaptured_ConsoleOnly(io, out) ==
  [console |-> Append(io.console, [text |-> out, color |-> ""]),
   log |-> io.log]
WriteCaptured(io, out) ==
  [console |-> Append(io.console, [text |-> out, color |-> ""]),
   log |-> Append(io.log, [level |-> "", text |-> out])]

\* main up to find_model_paths: a new process, the log is truncated, the
\* threshold is read from the environment
MainStart ==
  /\ pc \in {"init", "exited"}
  /\ run < MaxRuns
  /\ run' = run + 1
  /\ console' = <<>>
  /\ log' = <<>>
  /\ threshold' \in Thresholds
  /\ model_paths' = <<>>
  /\ path_filters' = <<>>
  /\ toolOutcome' = ""
  /\ coverage_data' = None
  /\ models_needing_fixes' = <<>>
  /\ exit_code' = Unset
  /\ raised' = ""
  /\ procExit' = Unset
  /\ pc' = "find"
  /\ UNCHANGED <<outFile, fileRun>>

\* sorted(...) of the paths
RECURSIVE InsertPath(_, _)
InsertPath(sorted, p) ==
  IF sorted = <<>> THEN <<p>>
  ELSE IF p.dir < Head(sorted).dir THEN <<p>> \o sorted
  ELSE <<Head(sorted)>> \o InsertPath(Tail(sorted), p)

RECURSIVE SortPaths(_)
SortPaths(paths) ==
  IF paths = <<>> THEN <<>>
  ELSE InsertPath(SortPaths(Tail(paths)), Head(paths))

\* create_path_filters: one --model-path-filter per path, './' removed
create_path_filters(paths) ==
  [i \in 1..Len(paths) |-> [flag |-> "--model-path-filter",
                            path |-> [root |-> "", dir |-> paths[i].dir]]]

\* main when model_paths is empty: one message, `return 1` out of main; the
\* caller of main() drops the value and the interpreter ends with status 0
NoModelPaths(io) ==
  /\ console' = log_and_print(io, Txt("NoModelPaths", <<>>, <<>>), "ERROR", "RED").console
  /\ log' = log_and_print(io, Txt("NoModelPaths", <<>>, <<>>), "ERROR", "RED").log
  /\ model_paths' = <<>>
  /\ exit_code' = 1
  /\ procExit' = 0
  /\ pc' = "exited"
  /\ UNCHANGED <<run, threshold, path_filters, outFile, fileRun, toolOutcome,
                 coverage_data, models_needing_fixes, raised>>

\* find_model_paths: find exits non-zero (CalledProcessError), logged, []
FindFails ==
  /\ pc = "find"
  /\ NoModelPaths(log_and_print(IO, Txt("FindFailed", <<>>, <<>>), "ERROR", "RED"))

\* find_model_paths: find prints nothing, []
FindEmpty ==
  /\ pc = "find"
  /\ NoModelPaths(IO)

\* find_model_paths: the sorted lines of find; main builds the filters
FindPaths ==
  /\ pc = "find"
  /\ \E out \in FindOutputs :
       /\ model_paths' = SortPaths(out)
       /\ path_filters' = create_path_filters(SortPaths(out))
  /\ pc' = "acquire"
  /\ UNCHANGED <<run, threshold, outFile, fileRun, toolOutcome, coverage_data,
                 models_needing_fixes, exit_code, raised, procExit, console, log>>

\* the two messages run_dbt_coverage starts with
RunHeader(io) ==
  log_and_print(
    log_and_print(io, Txt("RunningFilters", <<>>, <<Len(path_filters)>>), "INFO", "CYAN"),
    Txt("RunningCommand", <<>>, <<Len(path_filters), threshold>>), "INFO", "CYAN")

\* the file as the tool leaves it
AfterWrite(file, write) == IF write = NoWrite THEN file ELSE write

\* os.path.exists(output_file), json.load; a failing load is caught by the
\* outer except
LoadReport(file) ==
  IF file = NoFile \/ file = Unreadable THEN None ELSE file

LoadCalls(file) ==
  IF file = NoFile THEN <<Call(Txt("OutputNotFound", <<>>, <<>>), "ERROR", "RED")>>
  ELSE IF file = Unreadable THEN <<Call(Txt("RunFailed", <<>>, <<>>), "ERROR", "RED")>>
  ELSE <<>>

Acquired(io, write) ==
  /\ outFile' = AfterWrite(outFile, write)
  /\ fileRun' = IF write = NoWrite THEN fileRun ELSE run
  /\ coverage_data' = LoadReport(AfterWrite(outFile, write))
  /\ console' = EmitAll(io, LoadCalls(AfterWrite(outFile, write))).console
  /\ log' = EmitAll(io, LoadCalls(AfterWrite(outFile, write))).log
  /\ pc' = "analyze"
  /\ UNCHANGED <<run, threshold, model_paths, path_filters, models_needing_fixes,
                 exit_code, raised, procExit>>

\* run_dbt_coverage, the tool exits 0
RunToolOk ==
  /\ pc = "acquire"
  /\ toolOutcome' = "ok"
  /\ \E write \in ToolWrites :
       Acquired(WriteCaptured(RunHeader(IO), Txt("ToolStdout", <<>>, <<>>)), write)

\* run_dbt_coverage, the tool exits non-zero (CalledProcessError)
RunToolNonZero ==
  /\ pc = "acquire"
  /\ toolOutcome' = "nonzero"
  /\ \E write \in ToolWrites :
       Acquired(log_and_print(WriteCaptured(RunHeader(IO), Txt("ToolStdout", <<>>, <<>>)),
                              Txt("ToolBelowThreshold", <<>>, <<Times100(threshold)>>),
                              "ERROR", "RED"),
                write)

\* run_dbt_coverage, the invocation raises another exception: outer except
RunToolRaises ==
  /\ pc = "acquire"
  /\ toolOutcome' = "raised"
  /\ coverage_data' = None
  /\ console' = log_and_print(RunHeader(IO), Txt("RunFailed", <<>>, <<>>), "ERROR", "RED").console
  /\ log' = log_and_print(RunHeader(IO), Txt("RunFailed", <<>>, <<>>), "ERROR", "RED").log
  /\ pc' = "analyze"
  /\ UNCHANGED <<run, threshold, model_paths, path_filters, outFile, fileRun,
                 models_needing_fixes, exit_code, raised, procExit>>

Init ==
  /\ pc = "init"
  /\ run = 0
  /\ threshold = DefaultThreshold
  /\ model_paths = <<>>
  /\ path_filters = <<>>
  /\ outFile = NoFile
  /\ fileRun = 0
  /\ toolOutcome = ""
  /\ coverage_data = None
  /\ models_needing_fixes = <<>>
  /\ exit_code = Unset
  /\ raised = ""
  /\ procExit = Unset
  /\ console = <<>>
  /\ log = <<>>

Next ==
  \/ MainStart
  \/ FindFails
  \/ FindEmpty
  \/ FindPaths
  \/ RunToolOk
  \/ RunToolNonZero
  \/ RunToolRaises
  \/ AnalyzeNoData
  \/ AnalyzeRaises
  \/ AnalyzeReport
  \/ SysExit

Spec == Init /\ [][Next]_vars

\* ------------------------------------- analyze_coverage_data on every input
InitAnalysis ==
  /\ pc = "analyze"
  /\ run = 1
  /\ threshold \in Thresholds
  /\ model_paths = <<1>>
  /\ path_filters = <<1>>
  /\ outFile = NoFile
  /\ fileRun = 0
  /\ toolOutcome = "ok"
  /\ coverage_data \in AnalysisInputs
  /\ models_needing_fixes = <<>>
  /\ exit_code = Unset
  /\ raised = ""
  /\ procExit = Unset
  /\ console = <<>>
  /\ log = <<>>

NextAnalysis == AnalyzeNoData \/ AnalyzeRaises \/ AnalyzeReport \/ SysExit

SpecAnalysis == InitAnalysis /\ [][NextAnalysis]_vars

\* ------------------------------------------------------------ properties
Returned == pc \in {"sysexit", "exited"} /\ raised = ""

InputTables == Get(coverage_data, "tables", <<>>)

IsBlock(entry) == entry.text.kind = "Block"
IsAnalysisEntry(entry) ==
  entry.text.kind \in {"NoCoverageData", "SummaryHeader", "Coverage", "FixesHeader",
                       "Block", "MissingHeader", "Column", "VerdictBelow", "VerdictMeets"}
Blocks == SelectSeq(log, IsBlock)

Bijections(S, T) == {f \in [S -> T] : /\ \A x, y \in S : x # y => f[x] # f[y]
                                      /\ \A t \in T : \E x \in S : f[x] = t}

\* C1: analyze_coverage_data returns 1 exactly when the report's coverage
\* (0 when the key is missing) is below the threshold and 0 otherwise, for
\* every report that is present, the empty one included, whatever its tables.
C1_VerdictIffBelowThreshold ==
  (pc = "sysexit" /\ coverage_data # None) =>
     exit_code = (IF Get(coverage_data, "coverage", 0) < threshold THEN 1 ELSE 0)

\* C2: when discovery yields no model paths the failure is logged and the
\* process ends with exit status 1.
C2_NoPathsExitOne ==
  (pc = "exited" /\ toolOutcome = "" /\ model_paths = <<>>) =>
     /\ \E i \in 1..Len(log) : log[i].text.kind = "NoModelPaths"
     /\ procExit = 1

\* C3: when acquisition yields no report (the invocation raised, the output
\* file is missing, or it cannot be read) the analysis emits the single
\* "no coverage data" error, no summary and no deficiencies, and the process
\* exits with status 1.
NoReport ==
  \/ toolOutcome = "raised"
  \/ toolOutcome \in {"ok", "nonzero"} /\ (outFile = NoFile \/ outFile = Unreadable)

C3_NoReportFailsClosed ==
  (pc \in {"sysexit", "exited"} /\ NoReport) =>
     /\ SelectSeq(log, IsAnalysisEntry)
          = <<[level |-> "ERROR", text |-> Txt("NoCoverageData", <<>>, <<>>)]>>
     /\ SelectSeq(console, IsAnalysisEntry)
          = <<[text |-> Txt("NoCoverageData", <<>>, <<>>), color |-> "RED"]>>
     /\ models_needing_fixes = <<>>
     /\ exit_code = 1
     /\ (pc = "exited" => procExit = 1)

C3_Witness ==
  /\ pc = "exited"
  /\ toolOutcome = "raised"
  /\ outFile \notin {NoFile, Unreadable}
  /\ procExit = 1

\* C4: once the analysis has gone through the tables, the deficiency list
\* holds one record for each table whose coverage is below 1.0 and that has a
\* column of coverage 0, and no other record; a record's missing columns are
\* the names of that table's zero-coverage columns in column order, and are
\* not empty.
ColumnsOf(table) == Get(table, "columns", <<>>)
ZeroColumns(table) ==
  {j \in 1..Len(ColumnsOf(table)) : Get(ColumnsOf(table)[j], "coverage", 0) = 0}
Deficient(table) == Get(table, "coverage", 0) < One /\ ZeroColumns(table) # {}
DeficientTables == {i \in 1..Len(InputTables) : Deficient(InputTables[i])}

IsZeroColumnNames(table, names) ==
  /\ Len(names) = Cardinality(ZeroColumns(table))
  /\ \E f \in [1..Len(names) -> ZeroColumns(table)] :
       /\ \A a, b \in 1..Len(names) : a < b => f[a] < f[b]
       /\ \A a \in 1..Len(names) : names[a] = ColumnsOf(table)[f[a]]["name"]

RecordOf(table, rec) ==
  /\ rec.model = Get(table, "name", "")
  /\ rec.missing_columns # <<>>
  /\ IsZeroColumnNames(table, rec.missing_columns)

C5_SeverityAsStated ==
  Returned =>
     /\ Len(Blocks) = Len(models_needing_fixes)
     /\ \A p \in 1..Len(Blocks) :
          LET status == Blocks[p].level
              pct == models_needing_fixes[p].coverage
          IN /\ status \in {"CRITICAL", "WARNING", "MINOR"}
             /\ Blocks[p].text.strs[1] = status
             /\ status = "CRITICAL" <=> pct = 0
             /\ status = "WARNING" <=> (0 < pct /\ pct < threshold * 100)
             /\ status = "MINOR" <=> (threshold * 100 <= pct /\ pct < One * 100)

\* C5 amended: each deficiency is rendered with one severity, CRITICAL iff
\* its percentage is 0, WARNING iff 0 < percentage < threshold*100, MINOR iff
\* 0 < percentage and threshold*100 <= percentage < 100.
C5_SeverityOrdered ==
  Returned =>
     /\ Len(Blocks) = Len(models_needing_fixes)
     /\ \A p \in 1..Len(Blocks) :
          LET status == Blocks[p].level
              pct == models_needing_fixes[p].coverage
          IN /\ status \in {"CRITICAL", "WARNING", "MINOR"}
             /\ Blocks[p].text.strs[1] = status
             /\ status = "CRITICAL" <=> pct = 0
             /\ status = "WARNING" <=> (0 < pct /\ pct < threshold * 100)
             /\ status = "MINOR" <=> (0 < pct /\ threshold * 100 <= pct /\ pct < One * 100)

C5_Witness ==
  /\ Returned
  /\ threshold = 0
  /\ Len(Blocks) = 2
  /\ Blocks[1].level = "CRITICAL"
  /\ Blocks[2].level = "MINOR"

\* C6: the deficiency blocks come out in non-decreasing order of percentage,
\* and blocks of equal percentage in the order of their tables in the report.
C6_SortedStable ==
  Returned =>
     /\ Len(Blocks) = Len(models_needing_fixes)
     /\ \E s \in Bijections(1..Len(Blocks), DeficientTables) :
          /\ \A p \in 1..Len(Blocks) :
               /\ Blocks[p].text.strs[2] = Get(InputTables[s[p]], "name", "")
               /\ Blocks[p].text.nums[1] = Get(InputTables[s[p]], "coverage", 0) * 100
               /\ models_needing_fixes[p].model = Blocks[p].text.strs[2]
               /\ models_needing_fixes[p].coverage = Blocks[p].text.nums[1]
               /\ IsZeroColumnNames(InputTables[s[p]], models_needing_fixes[p].missing_columns)
          /\ \A p, q \in 1..Len(Blocks) :
               p < q => \/ Blocks[p].text.nums[1] < Blocks[q].text.nums[1]
                        \/ /\ Blocks[p].text.nums[1] = Blocks[q].text.nums[1]
                           /\ s[p] < s[q]

C6_Witness ==
  /\ Returned
  /\ Len(Blocks) = 2
  /\ Blocks[1].text.nums[1] = Blocks[2].text.nums[1]
  /\ Blocks[1].text.strs[2] = "orders"
  /\ Blocks[2].text.strs[2] = "events"

\* C7: analyze_coverage_data never raises on a report with missing keys; it
\* runs to its end and returns 0 or 1.
C7_NeverRaises ==
  /\ raised = ""
  /\ pc \in {"sysexit", "exited"} => exit_code \in {0, 1}

\* C8: when the tool exits non-zero and the output file holds a report, the
\* captured output is logged and the exit status of the process is 1 if the
\* report's coverage is below the threshold and 0 otherwise.
C8_NonZeroToolVerdict ==
  (pc = "exited" /\ toolOutcome = "nonzero" /\ outFile # NoFile /\ outFile # Unreadable) =>
     /\ \E i \in 1..Len(log) : log[i].text.kind = "ToolStdout"
     /\ procExit = (IF Get(outFile, "coverage", 0) < threshold THEN 1 ELSE 0)

C10_ReportOfThisRun ==
  (pc \in {"analyze", "sysexit", "exited"} /\ coverage_data # None) => fileRun = run

====
